---- MODULE Spec2Model ----
(* A model of src/MultiSelect.tsx: the view components of the multi-select *)
(* dropdown, rendered against the state that the use-select hooks provide. *)
(* The hooks themselves live in ./use-select, which the file imports;     *)
(* their state machine is modelled from the specification.                 *)
EXTENDS Integers, Sequences, FiniteSets, TLC

VARIABLES isOpen, selectedItems, inputValue, highlightedIndex, multi,
          label, callerProps, event, view

vars == <<isOpen, selectedItems, inputValue, highlightedIndex, multi,
          label, callerProps, event, view>>

selectState == <<isOpen, selectedItems, inputValue, highlightedIndex>>

(* ---------------------------------------------------------------------- *)
(* Bounds                                                                 *)
(* ---------------------------------------------------------------------- *)
MaxSelected == 2

(* ---------------------------------------------------------------------- *)
(* JavaScript values and object spread                                    *)
(* ---------------------------------------------------------------------- *)
Undefined == "<undefined>"
Null == "<null>"
JsTrue == "<true>"
JsFalse == "<false>"

\* JavaScript truthiness of a (string-encoded) value: x && ..., x || ..., !!x
Truthy(v) == v \notin {Undefined, Null, JsFalse, ""}

\* a || b
OrElse(a, b) == IF Truthy(a) THEN a ELSE b

NoProps == <<>>

\* { ...a, ...b }: the later spread wins on a shared name
Spread(a, b) == b @@ a

\* const { k1, k2, ...rest } = a
Rest(a, ks) == [k \in (DOMAIN a) \ ks |-> a[k]] @@ NoProps

\* a.k, undefined when the object has no such property
Get(a, k) == IF k \in DOMAIN a THEN a[k] ELSE Undefined

\* a JSX element
El(type, key, props, children) ==
  [type |-> type, key |-> key, props |-> props, children |-> children]

Text(v) == El("#text", Undefined, [text |-> v], <<>>)

(* ---------------------------------------------------------------------- *)
(* use-select: the state kept by the hooks and the props they hand out     *)
(* ---------------------------------------------------------------------- *)
Options ==
  << [value |-> "a",  label |-> "Apple",   id |-> "opt-a", created |-> JsFalse],
     [value |-> "ab", label |-> "",        id |-> "",      created |-> Null],
     [value |-> "",   label |-> Undefined, id |-> Undefined],
     [value |-> "new", label |-> "new",    id |-> Undefined, created |-> JsTrue] >>

Values == {"a", "ab", "", "new"}

InputTexts == {"", "a", "zz"}

\* an event handler handed out by a hook (or by the caller)
Handler(h, v, i) == [h |-> h, value |-> v, index |-> i]

StartsWith(s, p) == p = "" \/ s = p \/ <<s, p>> \in {<<"ab", "a">>}

RECURSIVE filterOptions(_, _)
filterOptions(xs, text) ==
  IF xs = <<>> THEN <<>>
  ELSE IF StartsWith(Head(xs).value, text)
       THEN <<Head(xs)>> \o filterOptions(Tail(xs), text)
       ELSE filterOptions(Tail(xs), text)

\* the filtered list
visibleOptionsOf(text) == filterOptions(Options, text)

String(v) == CASE v = Undefined -> "undefined" [] v = Null -> "null" [] OTHER -> v

labelFromValue(value) == String(value)

idFromOption(option, prefix) == prefix \o String(option.value)

\* ctx = useSelect(ownProps), over the state st that the hook keeps
useSelect(st, ownProps) ==
  [ isOpen           |-> st.isOpen,
    selectedItems    |-> st.selectedItems,
    inputValue       |-> st.inputValue,
    highlightedIndex |-> st.highlightedIndex,
    multi            |-> ownProps.multi,
    visibleOptions   |-> visibleOptionsOf(st.inputValue) ]

getOption(ctx, option) ==
  [ id       |-> Get(option, "id"),
    value    |-> option.value,
    label    |-> Get(option, "label"),
    created  |-> Get(option, "created"),
    selected |-> IF \E i \in DOMAIN ctx.selectedItems : ctx.selectedItems[i] = option.value
                 THEN JsTrue ELSE JsFalse ]

useSelectLabel(ctx) ==
  [ id |-> "select-label", htmlFor |-> "select-input" ]

useSelectItem(ctx, args) ==
  [ highlightedRef  |-> IF args.index = ctx.highlightedIndex THEN "highlightedRef" ELSE Undefined,
    option          |-> [value |-> args.value, label |-> args.label],
    id              |-> "select-item",
    role            |-> "option",
    onClick         |-> Handler("selectOption", args.value, args.index) ]

useSelectList(ctx) ==
  [ __css          |-> [bg |-> "white", zIndex |-> "1"],
    visibleOptions |-> ctx.visibleOptions,
    isOpen         |-> ctx.isOpen,
    ref            |-> "listRef",
    role           |-> "listbox" ]

useSelectInput(ctx, props) ==
  Spread(props, [ value     |-> ctx.inputValue,
                  onChange  |-> Handler("input", "", -1),
                  onKeyDown |-> Handler("highlightNext", "", -1) ])

useSelectedItem(ctx, args) ==
  [ onClick  |-> Handler("removeSelected", args.value, args.index),
    __css    |-> [variant |-> "subtle"],
    tabIndex |-> "-1" ]

useSelectButton(ctx, props) ==
  Spread(props, [ isOpen  |-> ctx.isOpen,
                  onClick |-> Handler("toggle", "", -1),
                  __css   |-> [variant |-> "ghost"] ])

useSelectedList(ctx, props) ==
  Spread(props, [ __css         |-> [flexWrap |-> "wrap"],
                  selectedItems |-> ctx.selectedItems,
                  multi         |-> ctx.multi ])

useSelectCombobox(ctx, props) ==
  Spread(props, [ __css |-> [spacing |-> "1"], role |-> "combobox" ])

useSelectControl(ctx, args) ==
  [ ref |-> "controlRef", __css |-> [h |-> "auto"] ]

\* chakra: the theming props removed by omitThemingProps, and the style config
ThemingProps == {"styleConfig", "size", "variant", "colorScheme"}

omitThemingProps(props) == Rest(props, ThemingProps)

useMultiStyleConfig(name, props) == [theme |-> name, size |-> Get(props, "size")]

(* ---------------------------------------------------------------------- *)
(* The components of MultiSelect.tsx                                      *)
(* A component renders to an element that carries the props it was given  *)
(* and, as children, what it returned.                                    *)
(* ---------------------------------------------------------------------- *)

\* a && b
AndThen(a, b) == IF Truthy(a) THEN b ELSE a

\* children of an element, taken from its props
ChildrenOf(props) == IF "children" \in DOMAIN props THEN props.children ELSE <<>>

SelectLabel(ctx, props) ==
  LET labelProps == useSelectLabel(ctx)
      merged     == Spread(props, labelProps)
  IN  El("SelectLabel", Undefined, props,
         << El("chakra.label", Undefined, Rest(merged, {"children"}), ChildrenOf(merged)) >>)

NewTag ==
  El("Tag", Undefined, [flexShrink |-> "0"],
     << El("TagLabel", Undefined, [fontSize |-> "xs", fontWeight |-> "bold"],
           << Text("New") >>) >>)

\* faulty variant: {created !== undefined && <Tag>New</Tag>}
createdTagUnlessUndefined(created) == IF created # Undefined THEN <<NewTag>> ELSE <<>>

\* {!!created && <Tag>New</Tag>}
createdTag(created) == IF Truthy(created) THEN <<NewTag>> ELSE <<>>

\* faulty variant: {value}
displayedValue(option, value) == value

\* {option?.label || value}
displayedLabel(option, value) == OrElse(Get(option, "label"), value)

\* faulty variant: <chakra.li ref={...} {...itemProps} {...props}>
optionElementPropsCallerLast(highlightedRef, props, itemProps) ==
  Spread(Spread([ref |-> AndThen(highlightedRef, highlightedRef)], itemProps), props)

\* <chakra.li ref={highlightedRef && highlightedRef} {...props} {...itemProps}>
optionElementProps(highlightedRef, props, itemProps) ==
  Spread(Spread([ref |-> AndThen(highlightedRef, highlightedRef)], props), itemProps)

SelectOptionItem(ctx, key, allProps) ==
  LET value    == Get(allProps, "value")
      label_   == Get(allProps, "label")
      index    == Get(allProps, "index")
      selected == Get(allProps, "selected")
      created  == Get(allProps, "created")
      props    == Rest(allProps, {"value", "label", "index", "selected", "created"})
      hook     == useSelectItem(ctx, [value |-> value, label |-> label_,
                                      index |-> index, selected |-> selected])
      highlightedRef == hook.highlightedRef
      option         == hook.option
      itemProps      == Rest(hook, {"highlightedRef", "option"})
  IN  El("SelectOptionItem", key, allProps,
         << El("chakra.li", Undefined, optionElementProps(highlightedRef, props, itemProps),
               << El("HStack", Undefined, [justifyContent |-> "space-between", w |-> "full"],
                     << El("Box", Undefined, NoProps, << Text(displayedLabel(option, value)) >>) >>
                       \o createdTag(created)) >>) >>)

\* faulty variant: const dropdownVisible = !!isOpen
dropdownVisibleWhenOpen(open, visibleOptions) == open

\* const dropdownVisible = !!(isOpen && visibleOptions.length)
dropdownVisible(open, visibleOptions) == open /\ Len(visibleOptions) # 0

\* faulty variant: the items are numbered from 1
optionItemPropsFromOne(ctx, option, index) ==
  LET optionItem == getOption(ctx, option)
  IN  [ key      |-> OrElse(optionItem.id, idFromOption(optionItem, "option-")),
        value    |-> optionItem.value,
        label    |-> OrElse(optionItem.label, labelFromValue(optionItem.value)),
        selected |-> optionItem.selected,
        created  |-> optionItem.created,
        index    |-> index + 1 ]

optionItemProps(ctx, option, index) ==
  LET optionItem == getOption(ctx, option)
  IN  [ key      |-> OrElse(optionItem.id, idFromOption(optionItem, "option-")),
        value    |-> optionItem.value,
        label    |-> OrElse(optionItem.label, labelFromValue(optionItem.value)),
        selected |-> optionItem.selected,
        created  |-> optionItem.created,
        index    |-> index ]

\* the __css of the list
listCss(visible, css) ==
  Spread(Spread([listStyle |-> "none", position |-> "absolute"],
                IF ~visible THEN [display |-> "none"] ELSE NoProps),
         css)

\* visibleOptions.map((item, index) => <SelectOptionItem key={itemKey} {...restItemProps} />),
\* from the given (0-based) index on
RECURSIVE mapOptions(_, _, _)
mapOptions(ctx, visibleOptions, index) ==
  IF visibleOptions = <<>> THEN <<>>
  ELSE LET p == optionItemProps(ctx, Head(visibleOptions), index)
       IN  << SelectOptionItem(ctx, p.key, Rest(p, {"key"})) >>
             \o mapOptions(ctx, Tail(visibleOptions), index + 1)

\* {dropdownVisible && visibleOptions.map(...)}
listItems(ctx, visible, visibleOptions) ==
  IF visible THEN mapOptions(ctx, visibleOptions, 0) ELSE <<>>

SelectList(ctx) ==
  LET hook           == useSelectList(ctx)
      css            == hook.__css
      visibleOptions == hook.visibleOptions
      open           == hook.isOpen
      listRef        == hook.ref
      listProps      == Rest(hook, {"__css", "visibleOptions", "isOpen", "getOption", "ref"})
      visible        == dropdownVisible(open, visibleOptions)
  IN  El("SelectList", Undefined, NoProps,
         << El("chakra.ul", Undefined,
               Spread([ref |-> listRef, __css |-> listCss(visible, css)], listProps),
               listItems(ctx, visible, visibleOptions)) >>)

\* x = default in a destructuring: the default applies to undefined only
Default(v, d) == IF v = Undefined THEN d ELSE v

\* faulty variant: __css={{ ...__css, ...__css?._active }}
toggleIconCssAlways(isActive, css) ==
  Spread(css, IF "_active" \in DOMAIN css THEN css._active ELSE NoProps)

\* __css={{ ...__css, ...(isActive && __css?._active) }}
toggleIconCss(isActive, css) ==
  Spread(css, IF isActive /\ "_active" \in DOMAIN css THEN css._active ELSE NoProps)

SelectToggleIcon(allProps) ==
  LET isActive == allProps.isActive
      width    == Default(Get(allProps, "width"), "1.25rem")
      height   == Default(Get(allProps, "height"), "1.25rem")
      css      == allProps.__css
      props    == Rest(allProps, {"isActive", "width", "height", "__css"})
  IN  El("SelectToggleIcon", Undefined, allProps,
         << El("ChakraSvg", Undefined,
               Spread([viewBox |-> "0 0 24 24", width |-> width, height |-> height,
                       __css |-> toggleIconCss(isActive, css)], props),
               << El("path", Undefined, [fill |-> "currentColor"], <<>>) >>) >>)

SelectInput(ctx, props) ==
  LET inputProps == useSelectInput(ctx, props)
  IN  El("SelectInput", Undefined, props,
         << El("chakra.input", Undefined, inputProps, <<>>) >>)

\* faulty variant: onClick is left among the props spread onto the Tag
tagPropsWithOnClick(hook) == Spread(hook.__css, Rest(hook, {"__css"}))

\* <Tag {...__css} {...itemProps}>
tagProps(hook) == Spread(hook.__css, Rest(hook, {"onClick", "__css"}))

\* <TagCloseButton onClick={onClick} />
closeButtonProps(hook) == [onClick |-> hook.onClick]

SelectedItem(ctx, key, allProps) ==
  LET value == allProps.value
      index == allProps.index
      props == Rest(allProps, {"value", "index"})
      hook  == useSelectedItem(ctx, Spread([value |-> value, index |-> index], props))
  IN  El("SelectedItem", key, allProps,
         << El("Tag", Undefined, tagProps(hook),
               << El("TagLabel", Undefined, NoProps, << Text(value) >>),
                  El("TagCloseButton", Undefined, closeButtonProps(hook), <<>>) >>) >>)

\* the __css given to the toggle icon
ToggleCss ==
  [ transitionDuration |-> "200ms",
    transitionProperty |-> "transform",
    _active            |-> [transform |-> "rotate(180deg)"] ]

\* <Icon isActive={isOpen} __css={...} />
toggleIcon(open) == SelectToggleIcon([isActive |-> open, __css |-> ToggleCss])

SelectToggleButton(ctx, props) ==
  LET hook        == useSelectButton(ctx, props)
      css         == hook.__css
      size        == Default(Get(hook, "size"), "sm")
      ariaLabel   == Default(Get(hook, "ariaLabel"), "toggle menu")
      open        == hook.isOpen
      buttonProps == Rest(hook, {"__css", "size", "ariaLabel", "Icon", "isOpen"})
  IN  El("SelectToggleButton", Undefined, props,
         << El("IconButton", Undefined,
               Spread(Spread(Spread([tabIndex |-> "0", size |-> size, icon |-> toggleIcon(open)],
                                    "aria-label" :> ariaLabel), css), buttonProps),
               <<>>) >>)

\* selectedItems.map((selectedItem, index) => <SelectedItem ... />), from the
\* given (0-based) index on
RECURSIVE mapSelected(_, _, _)
mapSelected(ctx, items, index) ==
  IF items = <<>> THEN <<>>
  ELSE << SelectedItem(ctx, "selected-item-" \o ToString(index),
                       [value |-> Head(items), index |-> index]) >>
         \o mapSelected(ctx, Tail(items), index + 1)

\* faulty variant: the children are rendered before the tags
selectedListChildrenFirst(ctx, isMulti, items, children) ==
  children \o (IF isMulti THEN mapSelected(ctx, items, 0) ELSE <<>>)

\* {multi && selectedItems?.map(...)} {children}
selectedListChildren(ctx, isMulti, items, children) ==
  (IF isMulti THEN mapSelected(ctx, items, 0) ELSE <<>>) \o children

SelectedList(ctx, allProps) ==
  LET children          == ChildrenOf(allProps)
      props             == Rest(allProps, {"children"})
      hook              == useSelectedList(ctx, props)
      css               == hook.__css
      selectedListProps == Rest(hook, {"__css", "selectedItems", "multi"})
  IN  El("SelectedList", Undefined, allProps,
         << El("Box", Undefined, Spread(css, selectedListProps),
               selectedListChildren(ctx, hook.multi, hook.selectedItems, children)) >>)

SelectCombobox(ctx, props) ==
  LET hook          == useSelectCombobox(ctx, props)
      css           == hook.__css
      comboboxProps == Rest(hook, {"__css"})
  IN  El("SelectCombobox", Undefined, props,
         << El("HStack", Undefined, Spread(css, comboboxProps),
               << SelectToggleButton(ctx, NoProps) >>) >>)

SelectControl(ctx, allProps) ==
  LET hook == useSelectControl(ctx, [ref |-> Undefined])
  IN  El("SelectControl", Undefined, allProps,
         << El("Input", Undefined, Spread([ref |-> hook.ref, as |-> "HStack"], hook.__css),
               ChildrenOf(allProps)) >>)

\* the context that Select provides: useSelect(omitThemingProps(props))
selectContext(st, props) == useSelect(st, omitThemingProps(props))

\* children are the elements rendered under the provider, against its context
Select(st, props, children) ==
  LET styles == useMultiStyleConfig("MultiSelect", props)
      ctx    == selectContext(st, props)
  IN  El("Select", Undefined, props,
         << El("SelectProvider", Undefined, [value |-> ctx],
               << El("StylesProvider", Undefined, [value |-> styles],
                     << El("chakra.div", Undefined, [pos |-> "relative"], children) >>) >>) >>)

\* faulty variant: {label !== undefined && <SelectLabel>{label}</SelectLabel>}
optionalLabelUnlessUndefined(ctx, label_) ==
  IF label_ # Undefined THEN << SelectLabel(ctx, [children |-> << Text(label_) >>]) >> ELSE <<>>

\* {label && <SelectLabel>{label}</SelectLabel>}
optionalLabel(ctx, label_) ==
  IF Truthy(label_) THEN << SelectLabel(ctx, [children |-> << Text(label_) >>]) >> ELSE <<>>

multiSelectChildren(ctx, label_) ==
  optionalLabel(ctx, label_)
    \o << SelectControl(ctx,
            [children |-> << SelectedList(ctx, [children |-> << SelectInput(ctx, NoProps) >>]),
                             SelectCombobox(ctx, NoProps) >>]),
          SelectList(ctx) >>

MultiSelect(st, allProps) ==
  LET label_ == Get(allProps, "label")
      props  == Rest(allProps, {"label"})
      children == multiSelectChildren(selectContext(st, props), label_)
  IN  El("MultiSelect", Undefined, allProps, << Select(st, props, children) >>)

(* ---------------------------------------------------------------------- *)
(* What is on screen: the MultiSelect, and a SelectLabel and a            *)
(* SelectOptionItem used directly by a caller who passes its own props    *)
(* ---------------------------------------------------------------------- *)
Labels == {Undefined, "", "Fruits"}

CallerNames == {"id", "onClick", "className"}

CallerProps(names) ==
  [k \in names |-> IF k = "onClick" THEN Handler("caller", "", -1) ELSE "caller"]

\* the props of <MultiSelect label=... multi=... size='md' />
multiSelectProps(l) == [label |-> l, multi |-> multi, size |-> "md"]

\* the props of <SelectOptionItem {...callerProps} value='a' label='Apple' index={0} created />
callerItemProps(cprops) ==
  Spread(cprops, [value |-> "a", label |-> "Apple", index |-> 0,
                       selected |-> JsFalse, created |-> JsTrue])

\* the context that the Select provider holds in state st
CtxOf(st) == selectContext(st, Rest(multiSelectProps(Undefined), {"label"}))

Render(st, l, cprops) ==
  [ app   |-> MultiSelect(st, multiSelectProps(l)),
    label |-> SelectLabel(CtxOf(st), cprops),
    item  |-> SelectOptionItem(CtxOf(st), Undefined, callerItemProps(cprops)) ]

\* the elements of the rendered MultiSelect
AppChildren(v) == v.app.children[1].children[1].children[1].children[1].children

ChildOfType(children, type) == children[CHOOSE i \in DOMAIN children : children[i].type = type]

ControlChildren(v) == ChildOfType(AppChildren(v), "SelectControl").children[1].children

SelectedListBox(v) == ChildOfType(ControlChildren(v), "SelectedList").children[1]

RECURSIVE OfType(_, _)
OfType(children, type) ==
  IF children = <<>> THEN <<>>
  ELSE (IF Head(children).type = type THEN <<Head(children)>> ELSE <<>>)
         \o OfType(Tail(children), type)

Tags(v) == OfType(SelectedListBox(v).children, "SelectedItem")

ListElement(v) == ChildOfType(AppChildren(v), "SelectList").children[1]

Items(v) == ListElement(v).children

ToggleButton(v) ==
  ChildOfType(ControlChildren(v), "SelectCombobox").children[1].children[1].children[1]

InputElement(v) == ChildOfType(SelectedListBox(v).children, "SelectInput").children[1]

(* ---------------------------------------------------------------------- *)
(* use-select: what the handlers do to the select state                   *)
(* ---------------------------------------------------------------------- *)
BoundedSeq(S, n) == UNION {[1..k -> S] : k \in 0..n}

removeAt(items, index) ==
  [i \in 1..(Len(items) - 1) |-> IF i <= index THEN items[i] ELSE items[i + 1]]

RECURSIVE without(_, _)
without(items, value) ==
  IF items = <<>> THEN <<>>
  ELSE (IF Head(items) = value THEN <<>> ELSE <<Head(items)>>) \o without(Tail(items), value)

Contains(items, value) == \E i \in DOMAIN items : items[i] = value

\* selecting toggles the value in multi mode and replaces it in single mode
selectValue(items, value, isMulti) ==
  IF ~isMulti THEN <<value>>
  ELSE IF Contains(items, value) THEN without(items, value)
  ELSE Append(items, value)

State == [isOpen |-> isOpen, selectedItems |-> selectedItems,
          inputValue |-> inputValue, highlightedIndex |-> highlightedIndex]

\* the select state after one handler has run
handle(st, h) ==
  CASE h.h = "toggle" ->
         [st EXCEPT !.isOpen = ~st.isOpen, !.highlightedIndex = 0]
    [] h.h = "removeSelected" /\ h.index + 1 \in DOMAIN st.selectedItems ->
         [st EXCEPT !.selectedItems = removeAt(st.selectedItems, h.index)]
    [] h.h = "selectOption" ->
         [st EXCEPT !.selectedItems = selectValue(st.selectedItems, h.value, multi)]
    [] h.h = "highlightNext" /\ st.isOpen /\ visibleOptionsOf(st.inputValue) # <<>> ->
         [st EXCEPT !.highlightedIndex =
            (st.highlightedIndex + 1) % Len(visibleOptionsOf(st.inputValue))]
    [] h.h = "input" ->
         [st EXCEPT !.inputValue = h.value, !.highlightedIndex = 0]
    [] OTHER -> st

RECURSIVE handleAll(_, _)
handleAll(st, hs) == IF hs = <<>> THEN st ELSE handleAll(handle(st, Head(hs)), Tail(hs))

\* the handlers a click on an element reaches: its own, then (bubbling) its parent's
onClickOf(el) == IF "onClick" \in DOMAIN el.props THEN <<el.props.onClick>> ELSE <<>>

\* a user event invokes handlers bound in the rendered view; the component
\* tree is rendered again against the new state
Dispatch(kind, index, hs) ==
  LET st == handleAll(State, hs)
  IN  /\ Len(st.selectedItems) <= MaxSelected
      /\ isOpen' = st.isOpen
      /\ selectedItems' = st.selectedItems
      /\ inputValue' = st.inputValue
      /\ highlightedIndex' = st.highlightedIndex
      /\ event' = [kind |-> kind, index |-> index, invoked |-> hs]
      /\ UNCHANGED <<multi, label, callerProps>>
      /\ view' = Render(st, label, callerProps)

Init ==
  /\ isOpen = FALSE
  /\ multi \in BOOLEAN
  /\ selectedItems \in BoundedSeq(Values, IF multi THEN MaxSelected ELSE 1)
  /\ inputValue = ""
  /\ highlightedIndex = 0
  /\ label \in Labels
  /\ callerProps = CallerProps({})
  /\ event = [kind |-> "other", index |-> -1, invoked |-> <<>>]
  /\ view = Render(State, label, callerProps)

Other == [kind |-> "other", index |-> -1, invoked |-> <<>>]

ClickToggle ==
  /\ onClickOf(ToggleButton(view)) # <<>>
  /\ Dispatch("other", -1, onClickOf(ToggleButton(view)))

ClickOption ==
  \E i \in DOMAIN Items(view) :
    Dispatch("other", -1, onClickOf(Items(view)[i].children[1]))

ClickTagBody ==
  \E i \in DOMAIN Tags(view) :
    Dispatch("tagBody", i - 1, onClickOf(Tags(view)[i].children[1]))

\* the click reaches the close button and then the tag around it
ClickTagClose ==
  \E i \in DOMAIN Tags(view) :
    LET tag == Tags(view)[i].children[1]
    IN  Dispatch("tagClose", i - 1, onClickOf(tag.children[2]) \o onClickOf(tag))

TypeText ==
  \E text \in InputTexts :
    /\ text # inputValue
    /\ Dispatch("other", -1, <<[InputElement(view).props.onChange EXCEPT !.value = text]>>)

\* arrow down in the input, while the list shows more than one option
HighlightNext ==
  /\ Len(Items(view)) > 1
  /\ Dispatch("other", -1, <<InputElement(view).props.onKeyDown>>)

\* faulty variant: rendering invokes the toggle handler
RerenderToggling ==
  \E l \in Labels :
    /\ label' = l
    /\ event' = Other
    /\ isOpen' = ~isOpen
    /\ UNCHANGED <<selectedItems, inputValue, highlightedIndex, multi, callerProps>>
    /\ view' = Render([State EXCEPT !.isOpen = ~isOpen], l, callerProps)

\* the caller renders the MultiSelect again, possibly with another label
Rerender ==
  \E l \in Labels :
    /\ label' = l
    /\ event' = Other
    /\ UNCHANGED <<isOpen, selectedItems, inputValue, highlightedIndex, multi, callerProps>>
    /\ view' = Render(State, l, callerProps)

\* the caller renders its own SelectLabel and SelectOptionItem with other props
RerenderCaller ==
  \E names \in SUBSET CallerNames :
    /\ callerProps' = CallerProps(names)
    /\ event' = Other
    /\ UNCHANGED <<isOpen, selectedItems, inputValue, highlightedIndex, multi, label>>
    /\ view' = Render(State, label, CallerProps(names))

Next ==
  \/ ClickToggle
  \/ ClickOption
  \/ ClickTagBody
  \/ ClickTagClose
  \/ TypeText
  \/ HighlightNext
  \/ Rerender

Spec == Init /\ [][Next]_vars

\* a caller composing SelectLabel and SelectOptionItem itself
NextCaller ==
  \/ ClickToggle
  \/ TypeText
  \/ HighlightNext
  \/ RerenderCaller

SpecCaller == Init /\ [][NextCaller]_vars

(* ---------------------------------------------------------------------- *)
(* Properties                                                             *)
(* ---------------------------------------------------------------------- *)
Types(children) == [i \in DOMAIN children |-> children[i].type]

\* the text shown inside an element that wraps a single text node
TextIn(el) == el.children[1].props.text

\* the <chakra.li> that a SelectOptionItem renders, and what it shows
ItemElement(item) == item.children[1]

ItemText(item) == TextIn(ItemElement(item).children[1].children[1])

HasNewTag(item) ==
  \E i \in DOMAIN ItemElement(item).children[1].children :
    ItemElement(item).children[1].children[i] = NewTag

Visible == isOpen /\ CtxOf(State).visibleOptions # <<>>

Blank(v) == v \in {"", Undefined, Null, JsTrue, JsFalse}

\* C1: in multi mode the children of the selected list are one tag per selected
\* item, in order, the tag at position i carrying index i and value
\* selectedItems[i], followed by the children (the input).
SelectedListTagsMatch ==
  multi =>
    LET kids == SelectedListBox(view).children
    IN  /\ Len(kids) = Len(selectedItems) + 1
        /\ \A i \in DOMAIN selectedItems :
             /\ kids[i].type = "SelectedItem"
             /\ kids[i].props.index = i - 1
             /\ kids[i].props.value = selectedItems[i]
             /\ TextIn(kids[i].children[1].children[1]) = selectedItems[i]
        /\ kids[Len(kids)].type = "SelectInput"

SelectedListTagsWitness ==
  /\ multi
  /\ event.kind = "tagClose"
  /\ Len(selectedItems) >= 1
  /\ Len(Tags(view)) = Len(selectedItems)

\* C2: while the dropdown is visible the rendered option items are exactly the
\* visible options, in order; the item for visibleOptions[i] receives index i
\* and the value, selected and created that getOption returns for it.
ListItemsAreVisibleOptions ==
  Visible =>
    LET ctx == CtxOf(State)
        vo  == ctx.visibleOptions
    IN  /\ Len(Items(view)) = Len(vo)
        /\ \A i \in DOMAIN vo :
             LET item == Items(view)[i]
                 opt  == getOption(ctx, vo[i])
             IN  /\ item.type = "SelectOptionItem"
                 /\ item.props.index = i - 1
                 /\ item.props.value = opt.value
                 /\ item.props.selected = opt.selected
                 /\ item.props.created = opt.created

ListItemsWitness ==
  /\ Visible
  /\ inputValue = "a"
  /\ Len(Items(view)) = 2
  /\ Items(view)[2].props.selected = JsTrue
  /\ Items(view)[1].props.selected = JsFalse

\* C3: a rendered option item shows the "New" tag exactly when its created flag
\* is truthy; false, null and undefined never show it.
NewTagIffCreated ==
  /\ \A i \in DOMAIN Items(view) :
       LET item == Items(view)[i]
       IN  /\ HasNewTag(item) <=> Truthy(item.props.created)
           /\ item.props.created \in {JsFalse, Null, Undefined} => ~HasNewTag(item)
  /\ HasNewTag(view.item) <=> Truthy(view.item.props.created)

NewTagWitness ==
  /\ Len(Items(view)) = 4
  /\ HasNewTag(Items(view)[4])
  /\ {Items(view)[i].props.created : i \in 1..3} = {JsFalse, Null, Undefined}

MultiSelectComposition ==
  /\ view.app.type = "MultiSelect"
  /\ Types(view.app.children) = <<"Select">>
  /\ view.app.props.label = label
  /\ view.app.children[1].props = Rest(view.app.props, {"label"})
  /\ Types(AppChildren(view)) =
       (IF Truthy(label) THEN <<"SelectLabel">> ELSE <<>>) \o <<"SelectControl", "SelectList">>
  /\ Truthy(label) => TextIn(AppChildren(view)[1].children[1]) = label
  /\ Types(ControlChildren(view)) = <<"SelectedList", "SelectCombobox">>
  /\ Types(ChildOfType(ControlChildren(view), "SelectedList").props.children) = <<"SelectInput">>

MultiSelectCompositionWitness ==
  /\ label = ""
  /\ Len(AppChildren(view)) = 2
  /\ isOpen

\* C6: the dropdown is shown exactly when isOpen holds and some option is
\* visible; otherwise the list has no option item and is hidden with display none.
DropdownVisibility ==
  LET ul == ListElement(view)
  IN  /\ Visible => /\ ul.children # <<>>
                    /\ "display" \notin DOMAIN ul.props.__css
      /\ ~Visible => /\ ul.children = <<>>
                     /\ Get(ul.props.__css, "display") = "none"

DropdownVisibilityWitness ==
  /\ isOpen
  /\ inputValue = "zz"
  /\ Items(view) = <<>>

\* C7: in SelectLabel and SelectOptionItem a prop that both the caller and the
\* hook give carries the hook's value on the rendered element; a caller prop
\* is on the element only when the hook returns no prop of that name.
HookPropsWin ==
  LET ctx       == CtxOf(State)
      labelEl   == view.label.children[1]
      labelHook == useSelectLabel(ctx)
      itemEl    == ItemElement(view.item)
      given     == view.item.props
      itemHook  == useSelectItem(ctx, [value |-> given.value, label |-> given.label,
                                       index |-> given.index, selected |-> given.selected])
  IN  /\ view.label.props = callerProps
      /\ \A k \in DOMAIN callerProps :
           /\ k \in DOMAIN labelHook => labelEl.props[k] = labelHook[k]
           /\ (k \in DOMAIN labelEl.props /\ labelEl.props[k] = callerProps[k])
                => k \notin DOMAIN labelHook
           /\ k \in DOMAIN itemHook => itemEl.props[k] = itemHook[k]
           /\ (k \in DOMAIN itemEl.props /\ itemEl.props[k] = callerProps[k])
                => k \notin DOMAIN itemHook
           /\ k \notin DOMAIN labelHook => labelEl.props[k] = callerProps[k]
           /\ k \notin DOMAIN itemHook => itemEl.props[k] = callerProps[k]

HookPropsWinWitness ==
  /\ DOMAIN callerProps = CallerNames
  /\ isOpen
  /\ ItemElement(view.item).props.className = "caller"

\* C8: the removal handler of a selected item is bound to its close button
\* only: the tag itself has no onClick, a click on the tag invokes nothing and
\* a click on the close button invokes the removal handler of that item once.
RemovalOnlyOnCloseButton ==
  /\ \A i \in DOMAIN Tags(view) :
       LET item == Tags(view)[i]
           tag  == item.children[1]
       IN  /\ "onClick" \notin DOMAIN tag.props
           /\ tag.children[2].type = "TagCloseButton"
           /\ tag.children[2].props.onClick =
                Handler("removeSelected", item.props.value, item.props.index)
           /\ "onClick" \notin DOMAIN tag.children[1].props
  /\ event.kind = "tagBody" => event.invoked = <<>>
  /\ event.kind = "tagClose" =>
       /\ Len(event.invoked) = 1
       /\ event.invoked[1].h = "removeSelected"
       /\ event.invoked[1].index = event.index

RemovalWitness ==
  /\ event.kind = "tagClose"
  /\ Len(Tags(view)) = 1

\* C9: the toggle icon gets isActive equal to isOpen, and its css carries the
\* active style (rotate 180 degrees) exactly when the select is open; when
\* closed it carries the css it was given and nothing more.
ToggleIconFollowsOpen ==
  LET icon == ToggleButton(view).props.icon
      css  == icon.children[1].props.__css
  IN  /\ icon.type = "SelectToggleIcon"
      /\ icon.props.isActive = isOpen
      /\ isOpen  => css = Spread(ToggleCss, [transform |-> "rotate(180deg)"])
      /\ ~isOpen => css = ToggleCss
      /\ ("transform" \in DOMAIN css) <=> isOpen

ToggleIconWitness ==
  /\ isOpen
  /\ ToggleButton(view).props.icon.children[1].props.__css.transform = "rotate(180deg)"

\* the part of C10 about what SelectList passes and what SelectOptionItem shows
LabelAndKeyFallback ==
  \A i \in DOMAIN Items(view) :
    LET item == Items(view)[i]
        opt  == getOption(CtxOf(State), CtxOf(State).visibleOptions[i])
        hook == useSelectItem(CtxOf(State), [value |-> item.props.value, label |-> item.props.label,
                                             index |-> item.props.index,
                                             selected |-> item.props.selected])
    IN  /\ item.props.label = IF Truthy(opt.label) THEN opt.label ELSE labelFromValue(opt.value)
        /\ item.key = IF Truthy(opt.id) THEN opt.id ELSE idFromOption(opt, "option-")
        /\ ItemText(item) = IF Truthy(hook.option.label) THEN hook.option.label
                            ELSE item.props.value

\* C10 as stated: label and key fall back as described, and an option with a
\* missing or empty label is never displayed as blank.
LabelFallbackNeverBlank ==
  /\ LabelAndKeyFallback
  /\ \A i \in DOMAIN Items(view) : ~Blank(ItemText(Items(view)[i]))

\* C10, amended: label and key fall back as described; an option with a
\* missing or empty label is displayed as blank only when its value is blank.
LabelFallbackBlankOnlyForBlankValue ==
  /\ LabelAndKeyFallback
  /\ \A i \in DOMAIN Items(view) :
       Blank(ItemText(Items(view)[i])) => Blank(Items(view)[i].props.value)

LabelFallbackWitness ==
  /\ Len(Items(view)) = 4
  /\ ItemText(Items(view)[1]) = "Apple"
  /\ ItemText(Items(view)[2]) = "ab"
  /\ Items(view)[2].key = "option-ab"

====
